---- MODULE Spec2Model ----
(***************************************************************************)
(* The SentimentNFT contract (contracts/SentimentNFT.sol) as a state       *)
(* machine.  One step is one transaction sent to the contract: it either   *)
(* succeeds and commits its writes, or reverts and commits nothing.        *)
(*                                                                         *)
(* Amounts of ether are counted in units of 10^10 wei: every mint price is *)
(* a whole multiple of that unit (see MintPriceAt), so no division of the  *)
(* contract truncates and every amount fits TLC's integers.                *)
(*                                                                         *)
(* Not modelled: mintTimestamp and the token URI (written once at mint,    *)
(* read by no operation of the contract), gas, and the ERC721 transfer and *)
(* approval entry points.                                                  *)
(*                                                                         *)
(* Beside the contract, the module holds the off-chain service             *)
(* (server/storage.ts, server/routes.ts) and the pure functions of both    *)
(* engines.  Each specification moves the variables of its own part and    *)
(* leaves the others where its initial predicate put them.                 *)
(***************************************************************************)
EXTENDS Integers, Sequences, FiniteSets

\* ------------------------------------------------------------------ bounds

\* At most this many tokens are minted in a behaviour.
MaxTokens == 2

MaxNfts == 2

MaxTicks == 2

MaxClients == 2

MaxCalls == 2

MaxClock == 2

\* ------------------------------------------------------------- identities

ZeroAddress == "0x0"
\* The deployer: Ownable's constructor makes msg.sender the owner.  An
\* externally owned account.
Owner == "owner"
\* Any other account.  It may be a contract, whose receive function runs when
\* ether is sent to it and may revert.
Alice == "alice"

Senders == {Owner, Alice}
ContractAccounts == {Alice}
Recipients == {Alice, ZeroAddress}
OracleInputs == {Alice, ZeroAddress}
AttributeInputs == {"{}"}

\* The legal sentiments of the inputs: the deployment value, and two values of
\* one other tier, the second the largest legal value.
LegalSentiments == {500, 900, 1000}

\* Arguments of updateSentiment: the legal ones and the first illegal one.
SentimentInputs == LegalSentiments \cup {1001}

TokenIdSpace == 0..(MaxTokens + 1)

\* ------------------------------------------------------ pricing and rarity

\* BASE_PRICE = 0.01 ether, in units of 10^13 wei.
BASE_PRICE == 1000
\* 49 ether / 100000, in units of 10^13 wei: the price added per sentiment point.
SentimentPriceStep == 49

RarityTier == {"Common", "Rare", "UltraRare", "Legendary"}

getRarityTier_Inclusive(sentiment) ==
    IF sentiment >= 800 THEN "Legendary"
    ELSE IF sentiment >= 600 THEN "UltraRare"
    ELSE IF sentiment >= 400 THEN "Rare"
    ELSE "Common"

getRarityTier(sentiment) ==
    IF sentiment > 800 THEN "Legendary"
    ELSE IF sentiment > 600 THEN "UltraRare"
    ELSE IF sentiment > 400 THEN "Rare"
    ELSE "Common"

\* getCurrentMintPrice at a given value of the global sentiment, in units of
\* 10^10 wei.  sentimentPrice is in units of 10^13 wei, that is 1000 of the
\* result's units, so the contract's sentimentPrice * multiplier / 1000 is the
\* product below, with nothing truncated.
MintPriceAt_Discount(sentiment) ==
    LET sentimentPrice == BASE_PRICE + sentiment * SentimentPriceStep
        multiplier == 3000 - sentiment * 2
    IN  sentimentPrice * multiplier

MintPriceAt(sentiment) ==
    LET sentimentPrice == BASE_PRICE + sentiment * SentimentPriceStep
        multiplier == 1000 + sentiment * 2
    IN  sentimentPrice * multiplier

\* msg.value of a mint: the price at each legal sentiment, one unit less than
\* the lowest and one unit more than the highest.
ValueInputs ==
    {MintPriceAt(s) : s \in LegalSentiments}
        \cup {MintPriceAt(500) - 1, MintPriceAt(1000) + 1}

\* ------------------------------------------------------------------- state

VARIABLES
    sentimentOracle,   \* address public sentimentOracle
    currentSentiment,  \* uint256 public currentSentiment
    tokenIds,          \* Counters.Counter _tokenIds
    nftMetadata,       \* mapping(uint256 => NFTMetadata)
    owners,            \* ERC721 _owners: token id -> owner, ZeroAddress if none
    balance,           \* address(this).balance
    before,            \* the contract's state when the last transaction began
    lastTx,            \* the last transaction: its call and its outcome
    events,            \* the events the last transaction emitted, in order
    transfers,         \* the ether the last transaction sent out, in order
    successfulMints,   \* how many mintNFT transactions have succeeded
    mintedSinceWithdraw, \* the NFTMinted prices since the last withdrawal
    nfts,              \* MemStorage.nfts: id -> Nft
    sentimentData,     \* MemStorage.sentimentData, oldest first
    created,           \* the ids createNft has returned so far
    arg,               \* the input of the function under evaluation
    out,               \* its result, once evaluated
    _status,           \* ReentrancyGuard._status
    frame,             \* the mintNFT call waiting for its refund to return
    reentrant,         \* the last call made from inside that refund
    quote,             \* the mint price a client last read from the contract
    cache,             \* RealSentimentService.cache, for one key
    now,               \* Date.now()
    pending,           \* the fetchWithCache calls waiting for their fetcher
    settled,           \* the fetchWithCache call that ended last
    clients,           \* wss.clients: the state of each WebSocket
    inbox,             \* the messages sent to each WebSocket, in order
    refresh            \* the refresh ticks: which wait for which sources

chainVars == <<sentimentOracle, currentSentiment, tokenIds, nftMetadata, owners,
               balance, before, lastTx, events, transfers, successfulMints,
               mintedSinceWithdraw>>

serverVars == <<nfts, sentimentData, created>>

functionVars == <<arg, out>>

guardVars == <<_status, frame, reentrant>>

clientVars == <<quote>>

cacheVars == <<cache, now, pending, settled>>

streamVars == <<clients, inbox, refresh>>

vars == <<chainVars, serverVars, functionVars, guardVars, clientVars, cacheVars,
          streamVars>>

contractState == <<sentimentOracle, currentSentiment, tokenIds, nftMetadata,
                   owners, balance>>

\* The contract's storage and balance, as one value.
Snapshot ==
    [sentimentOracle |-> sentimentOracle, currentSentiment |-> currentSentiment,
     tokenIds |-> tokenIds, nftMetadata |-> nftMetadata, owners |-> owners,
     balance |-> balance]

\* The value of an unwritten slot of nftMetadata.
EmptyMetadata ==
    [mintSentiment |-> 0, currentSentiment |-> 0, rarity |-> "Common",
     attributes |-> ""]

_exists_AnyId(tokenId) == tokenId \in DOMAIN owners

_exists(tokenId) == tokenId \in DOMAIN owners /\ owners[tokenId] # ZeroAddress

totalSupply == tokenIds

balanceOf(account) == Cardinality({i \in DOMAIN owners : owners[i] = account})

getCurrentMintPrice == MintPriceAt(currentSentiment)

\* A transaction: who calls what with which arguments (the fields an
\* operation does not take stay at their defaults), and how it ended.
Call(op, sender) ==
    [op |-> op, sender |-> sender, ok |-> TRUE, error |-> "",
     sentiment |-> 0, to |-> ZeroAddress, attributes |-> "", value |-> 0,
     oracle |-> ZeroAddress, result |-> 0, repeats |-> FALSE]

\* Whether a call is the same operation with the same arguments as the
\* transaction just before it, and that one succeeded.
Repeats(call) ==
    /\ lastTx.ok
    /\ lastTx.op = call.op
    /\ lastTx.sentiment = call.sentiment
    /\ lastTx.to = call.to
    /\ lastTx.attributes = call.attributes
    /\ lastTx.value = call.value
    /\ lastTx.oracle = call.oracle

\* What every transaction records, whatever its outcome.
Logged(call) ==
    /\ lastTx' = [call EXCEPT !.repeats = Repeats(call)]
    /\ before' = Snapshot
    /\ successfulMints' =
           IF call.op = "mintNFT" /\ call.ok
           THEN successfulMints + 1
           ELSE successfulMints
    /\ mintedSinceWithdraw' =
           IF call.op = "mintNFT" /\ call.ok
           THEN mintedSinceWithdraw + getCurrentMintPrice
           ELSE IF call.op = "withdraw" /\ call.ok
           THEN 0
           ELSE mintedSinceWithdraw
    /\ UNCHANGED <<serverVars, functionVars, clientVars, cacheVars, streamVars, guardVars>>

\* A reverted transaction: nothing of the contract's state changes, nothing
\* is emitted and no ether moves (msg.value returns to the sender).
Revert(call, reason) ==
    /\ Logged([call EXCEPT !.ok = FALSE, !.error = reason])
    /\ events' = <<>>
    /\ transfers' = <<>>
    /\ UNCHANGED contractState

\* The concurrent callers of fetchWithCache.
CallIds == 1..MaxCalls

NoEntry == [stored |-> FALSE]

NotCalling == [active |-> FALSE]

NoneSettled == [ended |-> FALSE]

\* A new RealSentimentService: nothing cached, nothing being fetched.
CacheEmpty ==
    /\ cache = NoEntry
    /\ now = 0
    /\ pending = [c \in CallIds |-> NotCalling]
    /\ settled = NoneSettled

\* The WebSockets that may connect, and the refresh ticks that may fire.
ClientIds == 1..MaxClients

TickIds == 1..MaxTicks

NoSocket == [state |-> "none"]

NotFired == [state |-> "not fired"]

\* No WebSocket has connected, no tick has fired.
NoTraffic ==
    /\ clients = [c \in ClientIds |-> NoSocket]
    /\ inbox = [c \in ClientIds |-> <<>>]
    /\ refresh = [useReal |-> FALSE, fresh |-> {},
                  ticks |-> [t \in TickIds |-> NotFired]]

\* The off-chain service, not started.
ServerAbsent ==
    /\ nfts = <<>>
    /\ sentimentData = <<>>
    /\ created = {}
    /\ CacheEmpty
    /\ NoTraffic

\* No function under evaluation.
Idle == [evaluated |-> FALSE]

FunctionsIdle ==
    /\ arg = Idle
    /\ out = Idle

NoFrame == [inFlight |-> FALSE]

NoQuote == [read |-> FALSE]

NoReentry == [attempted |-> FALSE]

\* The contract as its constructor leaves it.
Deployed ==
    /\ _status = "NOT_ENTERED"
    /\ frame = NoFrame
    /\ reentrant = NoReentry
    /\ quote = NoQuote
    /\ sentimentOracle = ZeroAddress
    /\ currentSentiment = 500
    /\ tokenIds = 0
    /\ nftMetadata = [i \in TokenIdSpace |-> EmptyMetadata]
    /\ owners = [i \in TokenIdSpace |-> ZeroAddress]
    /\ balance = 0
    /\ before = Snapshot
    /\ lastTx = Call("constructor", Owner)
    /\ events = <<>>
    /\ transfers = <<>>
    /\ successfulMints = 0
    /\ mintedSinceWithdraw = 0

Init ==
    /\ Deployed
    /\ ServerAbsent
    /\ FunctionsIdle

\* ------------------------------------------------------------ transactions

onlyOwner_OrOracle(sender) == sender = Owner \/ sender = sentimentOracle

onlyOwner(sender) == sender = Owner

onlyOracle_AnyCaller(sender) == TRUE

\* modifier onlyOracle
onlyOracle(sender) == sender = sentimentOracle \/ sender = Owner

setSentimentOracle(sender, _oracle) ==
    LET call == [Call("setSentimentOracle", sender) EXCEPT !.oracle = _oracle]
    IN  IF ~onlyOwner(sender)
        THEN Revert(call, "Ownable: caller is not the owner")
        ELSE /\ sentimentOracle' = _oracle
             /\ Logged(call)
             /\ events' = <<>>
             /\ transfers' = <<>>
             /\ UNCHANGED <<currentSentiment, tokenIds, nftMetadata, owners,
                            balance>>

RarityChanged_VersusMintTier(metadata, newRarity) ==
    newRarity # getRarityTier(metadata.mintSentiment)

RarityChanged_Always(metadata, newRarity) == TRUE

\* if (newRarity != metadata.rarity)
RarityChanged(metadata, newRarity) == newRarity # metadata.rarity

StoreSentiment_KeepsRarity(metadata, newSentiment, newRarity) ==
    [metadata EXCEPT !.currentSentiment = newSentiment]

StoreSentiment_OverwritesMint(metadata, newSentiment, newRarity) ==
    [metadata EXCEPT !.mintSentiment = newSentiment,
                     !.currentSentiment = newSentiment,
                     !.rarity = newRarity]

\* The writes of one iteration to the token's record: currentSentiment always,
\* rarity when the tier changed.
StoreSentiment(metadata, newSentiment, newRarity) ==
    [metadata EXCEPT !.currentSentiment = newSentiment,
                     !.rarity = IF RarityChanged(metadata, newRarity)
                                THEN newRarity ELSE @]

\* One iteration of the loop of _updateAllNFTSentiments, on token i: acc holds
\* the metadata mapping and the events emitted so far.
EvolveToken(acc, i, newSentiment) ==
    IF ~_exists(i) THEN acc
    ELSE
        LET metadata == acc.nftMetadata[i]
            newRarity == getRarityTier(newSentiment)
        IN  [nftMetadata |->
                 [acc.nftMetadata EXCEPT
                      ![i] = StoreSentiment(metadata, newSentiment, newRarity)],
             events |->
                 IF RarityChanged(metadata, newRarity)
                 THEN Append(acc.events,
                             [name |-> "NFTEvolved", tokenId |-> i,
                              newSentiment |-> newSentiment,
                              newRarity |-> newRarity])
                 ELSE acc.events]

LoopFirst_SkipsOne == 1 + 1

\* for (uint256 i = 1; ...
LoopFirst == 1

LoopLast_StopsEarly == tokenIds - 1

\* The last token id the loop of _updateAllNFTSentiments visits.
LoopLast == tokenIds

RECURSIVE UpdateFrom(_, _, _)
UpdateFrom(i, acc, newSentiment) ==
    IF i <= LoopLast
    THEN UpdateFrom(i + 1, EvolveToken(acc, i, newSentiment), newSentiment)
    ELSE acc

\* The metadata mapping after the loop and the NFTEvolved events it emits.
_updateAllNFTSentiments(newSentiment) ==
    UpdateFrom(LoopFirst, [nftMetadata |-> nftMetadata, events |-> <<>>],
               newSentiment)

SentimentInRange_Unchecked(_sentiment) == TRUE

SentimentInRange_OffByOne(_sentiment) == _sentiment <= 1001

\* require(_sentiment <= 1000, ...)
SentimentInRange(_sentiment) == _sentiment <= 1000

updateSentiment(sender, _sentiment) ==
    LET call == [Call("updateSentiment", sender) EXCEPT !.sentiment = _sentiment]
        updated == _updateAllNFTSentiments(_sentiment)
    IN  IF ~onlyOracle(sender)
        THEN Revert(call, "Not authorized oracle")
        ELSE IF ~SentimentInRange(_sentiment)
        THEN Revert(call, "Sentiment must be <= 1000")
        ELSE /\ currentSentiment' = _sentiment
             /\ nftMetadata' = updated.nftMetadata
             /\ events' =
                    <<[name |-> "SentimentUpdated", newSentiment |-> _sentiment]>>
                        \o updated.events
             /\ Logged(call)
             /\ transfers' = <<>>
             /\ UNCHANGED <<sentimentOracle, tokenIds, owners, balance>>

PaymentSufficient_AnyPositive(value, mintPrice) == value > 0

PaymentSufficient_Strict(value, mintPrice) == value > mintPrice

\* require(msg.value >= mintPrice, ...)
PaymentSufficient(value, mintPrice) == value >= mintPrice

NewMetadata_DefaultRarity(attributes) ==
    [mintSentiment |-> currentSentiment,
     currentSentiment |-> currentSentiment,
     rarity |-> "Common",
     attributes |-> attributes]

\* The record mintNFT stores for the new token.
NewMetadata(attributes) ==
    [mintSentiment |-> currentSentiment,
     currentSentiment |-> currentSentiment,
     rarity |-> getRarityTier(currentSentiment),
     attributes |-> attributes]

Refund_All(sender, value, mintPrice) ==
    IF value > 0 THEN <<[to |-> sender, amount |-> value]>> ELSE <<>>

Refund_None(sender, value, mintPrice) == <<>>

\* The ether mintNFT sends out after the mint: the excess to msg.sender.
Refund(sender, value, mintPrice) ==
    IF value > mintPrice
    THEN <<[to |-> sender, amount |-> value - mintPrice]>>
    ELSE <<>>

RECURSIVE SumAmounts(_)
SumAmounts(sent) ==
    IF sent = <<>> THEN 0 ELSE Head(sent).amount + SumAmounts(Tail(sent))

\* What an account may do with ether sent to it by transfer().
Accepts(account) == IF account \in ContractAccounts THEN BOOLEAN ELSE {TRUE}

NextTokenId_Reuses == IF tokenIds = 0 THEN 1 ELSE tokenIds

\* _tokenIds.increment(); _tokenIds.current()
NextTokenId == tokenIds + 1

\* accepts: whether msg.sender takes the ether transfer() sends it; an
\* externally owned account always does, a contract's receive may revert.
mintNFT(sender, to, attributes, value, accepts) ==
    LET call == [Call("mintNFT", sender) EXCEPT
                     !.to = to, !.attributes = attributes, !.value = value]
        mintPrice == getCurrentMintPrice
        tokenId == NextTokenId
        refund == Refund(sender, value, mintPrice)
    IN  IF ~PaymentSufficient(value, mintPrice)
        THEN Revert(call, "Insufficient payment")
        ELSE IF to = ZeroAddress
        THEN Revert(call, "ERC721: mint to the zero address")
        ELSE IF refund # <<>> /\ ~accepts
        THEN Revert(call, "")
        ELSE /\ tokenIds < MaxTokens
             /\ tokenIds' = tokenId
             /\ nftMetadata' = [nftMetadata EXCEPT ![tokenId] = NewMetadata(attributes)]
             /\ owners' = [owners EXCEPT ![tokenId] = to]
             /\ events' =
                    <<[name |-> "NFTMinted", tokenId |-> tokenId, to |-> to,
                       sentiment |-> currentSentiment, price |-> mintPrice]>>
             /\ transfers' = refund
             /\ balance' = balance + value - SumAmounts(refund)
             /\ Logged([call EXCEPT !.result = tokenId])
             /\ UNCHANGED <<sentimentOracle, currentSentiment>>

withdraw(sender) ==
    LET call == Call("withdraw", sender)
    IN  IF ~onlyOwner(sender)
        THEN Revert(call, "Ownable: caller is not the owner")
        ELSE IF ~(balance > 0)
        THEN Revert(call, "No funds to withdraw")
        ELSE /\ transfers' = <<[to |-> Owner, amount |-> balance]>>
             /\ balance' = 0
             /\ Logged(call)
             /\ events' = <<>>
             /\ UNCHANGED <<sentimentOracle, currentSentiment, tokenIds,
                            nftMetadata, owners>>

\* ------------------------------------------------------ the refund in flight
\* mintNFT taken in two steps when msg.sender is a contract and is owed a
\* refund: up to the transfer, which hands control to the sender's receive
\* function, and from its return.  In between the sender may call back into
\* the contract.  Gas is counted only as far as it decides such a call:
\* transfer forwards the stipend of 2300 gas, and a frame holding no more
\* than that cannot write storage.

ForwardedGas_All == "all"

\* payable(msg.sender).transfer(...)
ForwardedGas == "stipend"

\* SSTORE fails in a frame whose gas is the stipend or less.
SstoreAllowed(gas) == gas # "stipend"

\* modifier nonReentrant: true when the call may proceed.
nonReentrant == _status # "ENTERED"

mintNFTUntilRefund(sender, to, attributes, value) ==
    LET call == [Call("mintNFT", sender) EXCEPT
                     !.to = to, !.attributes = attributes, !.value = value]
        mintPrice == getCurrentMintPrice
        tokenId == NextTokenId
        refund == Refund(sender, value, mintPrice)
    IN  /\ ~frame.inFlight
        /\ sender \in ContractAccounts
        /\ nonReentrant
        /\ PaymentSufficient(value, mintPrice)
        /\ to # ZeroAddress
        /\ refund # <<>>
        /\ tokenIds < MaxTokens
        /\ _status' = "ENTERED"
        /\ tokenIds' = tokenId
        /\ nftMetadata' = [nftMetadata EXCEPT ![tokenId] = NewMetadata(attributes)]
        /\ owners' = [owners EXCEPT ![tokenId] = to]
        /\ events' =
               <<[name |-> "NFTMinted", tokenId |-> tokenId, to |-> to,
                  sentiment |-> currentSentiment, price |-> mintPrice]>>
        /\ transfers' = refund
        /\ balance' = balance + value - SumAmounts(refund)
        /\ before' = Snapshot
        /\ frame' = [inFlight |-> TRUE, call |-> [call EXCEPT !.result = tokenId],
                     gas |-> ForwardedGas]
        /\ reentrant' = NoReentry
        /\ UNCHANGED <<sentimentOracle, currentSentiment, lastTx,
                       successfulMints, mintedSinceWithdraw, serverVars,
                       functionVars, clientVars, cacheVars, streamVars>>

\* A call made by the refunded sender that fails: its frame reverts, the
\* contract is as it was.
Rejected(call, reason) ==
    /\ reentrant' = [attempted |-> TRUE, op |-> call.op, ok |-> FALSE,
                     error |-> reason]
    /\ UNCHANGED <<chainVars, serverVars, functionVars, clientVars, cacheVars, streamVars, _status, frame>>

Accepted(call) ==
    reentrant' = [attempted |-> TRUE, op |-> call.op, ok |-> TRUE, error |-> ""]

\* The sender's receive function calls mintNFT.
reenterMintNFT(to, attributes, value) ==
    LET sender == frame.call.sender
        call == [Call("mintNFT", sender) EXCEPT
                     !.to = to, !.attributes = attributes, !.value = value]
        mintPrice == getCurrentMintPrice
        tokenId == NextTokenId
    IN  /\ frame.inFlight
        /\ IF ~nonReentrant
           THEN Rejected(call, "ReentrancyGuard: reentrant call")
           ELSE IF ~SstoreAllowed(frame.gas)
           THEN Rejected(call, "out of gas")
           ELSE IF ~PaymentSufficient(value, mintPrice)
           THEN Rejected(call, "Insufficient payment")
           ELSE IF to = ZeroAddress
           THEN Rejected(call, "ERC721: mint to the zero address")
           ELSE /\ tokenIds < MaxTokens
                /\ value = mintPrice
                /\ tokenIds' = tokenId
                /\ nftMetadata' =
                       [nftMetadata EXCEPT ![tokenId] = NewMetadata(attributes)]
                /\ owners' = [owners EXCEPT ![tokenId] = to]
                /\ events' =
                       events \o
                       <<[name |-> "NFTMinted", tokenId |-> tokenId, to |-> to,
                          sentiment |-> currentSentiment, price |-> mintPrice]>>
                /\ balance' = balance + value
                /\ Accepted(call)
                /\ UNCHANGED <<sentimentOracle, currentSentiment, before, lastTx,
                               transfers, successfulMints, mintedSinceWithdraw,
                               serverVars, functionVars, clientVars, cacheVars, streamVars, _status, frame>>

\* The sender's receive function calls updateSentiment, which has no
\* reentrancy guard.
reenterUpdateSentiment(_sentiment) ==
    LET sender == frame.call.sender
        call == [Call("updateSentiment", sender) EXCEPT !.sentiment = _sentiment]
        updated == _updateAllNFTSentiments(_sentiment)
    IN  /\ frame.inFlight
        /\ IF ~onlyOracle(sender)
           THEN Rejected(call, "Not authorized oracle")
           ELSE IF ~SentimentInRange(_sentiment)
           THEN Rejected(call, "Sentiment must be <= 1000")
           ELSE IF ~SstoreAllowed(frame.gas)
           THEN Rejected(call, "out of gas")
           ELSE /\ currentSentiment' = _sentiment
                /\ nftMetadata' = updated.nftMetadata
                /\ events' =
                       events \o
                       <<[name |-> "SentimentUpdated", newSentiment |-> _sentiment]>>
                       \o updated.events
                /\ Accepted(call)
                /\ UNCHANGED <<sentimentOracle, tokenIds, owners, balance, before,
                               lastTx, transfers, successfulMints,
                               mintedSinceWithdraw, serverVars, functionVars, clientVars, cacheVars, streamVars,
                               _status, frame>>

\* The refund returns: mintNFT ends, or the whole transaction reverts with
\* everything written since it began.
refundReturns(accepts) ==
    /\ frame.inFlight
    /\ frame' = NoFrame
    /\ reentrant' = NoReentry
    /\ _status' = "NOT_ENTERED"
    /\ IF accepts
       THEN /\ lastTx' = [frame.call EXCEPT !.repeats = Repeats(frame.call)]
            /\ successfulMints' = successfulMints + 1
            /\ mintedSinceWithdraw' = mintedSinceWithdraw + events[1].price
            /\ UNCHANGED <<contractState, before, events, transfers>>
       ELSE /\ lastTx' = [frame.call EXCEPT !.ok = FALSE, !.result = 0,
                                            !.repeats = Repeats(frame.call)]
            /\ sentimentOracle' = before.sentimentOracle
            /\ currentSentiment' = before.currentSentiment
            /\ tokenIds' = before.tokenIds
            /\ nftMetadata' = before.nftMetadata
            /\ owners' = before.owners
            /\ balance' = before.balance
            /\ events' = <<>>
            /\ transfers' = <<>>
            /\ UNCHANGED <<before, successfulMints, mintedSinceWithdraw>>
    /\ UNCHANGED <<serverVars, functionVars, clientVars, cacheVars, streamVars>>

\* -------------------------------------------------------- the minting client
\* Web3Service.mintRealNFT (client/src/lib/web3.ts): the client reads
\* getCurrentMintPrice, then sends mintNFT to its own address with the value
\* it read.  Other transactions may be mined between the two.

readMintPrice ==
    /\ quote' = [read |-> TRUE, mintPrice |-> getCurrentMintPrice]
    /\ UNCHANGED <<chainVars, serverVars, functionVars, guardVars, cacheVars,
                   streamVars>>

sendMint(wallet, attributes, accepts) ==
    /\ quote.read
    /\ mintNFT(wallet, wallet, attributes, quote.mintPrice, accepts)

\* ------------------------------------------------------------------ views

NotFound == [ok |-> FALSE, error |-> "Token does not exist"]

getNFTData(tokenId) ==
    IF ~_exists(tokenId) THEN NotFound
    ELSE
        LET metadata == nftMetadata[tokenId]
        IN  [ok |-> TRUE,
             mintSentiment |-> metadata.mintSentiment,
             currentSentiment |-> metadata.currentSentiment,
             rarity |-> metadata.rarity,
             attributes |-> metadata.attributes]

SentimentChange_Magnitude(originalSentiment, currentSentimentValue) ==
    IF currentSentimentValue >= originalSentiment
    THEN currentSentimentValue - originalSentiment
    ELSE originalSentiment - currentSentimentValue

\* int256(currentSentimentValue) - int256(originalSentiment): both are at most
\* 1000, so neither cast nor the signed subtraction overflows.
SentimentChange(originalSentiment, currentSentimentValue) ==
    currentSentimentValue - originalSentiment

getSentimentEvolution(tokenId) ==
    IF ~_exists(tokenId) THEN NotFound
    ELSE
        LET metadata == nftMetadata[tokenId]
        IN  [ok |-> TRUE,
             originalSentiment |-> metadata.mintSentiment,
             currentSentimentValue |-> metadata.currentSentiment,
             sentimentChange |->
                 SentimentChange(metadata.mintSentiment,
                                 metadata.currentSentiment)]

\* ------------------------------------------------------- off-chain service
\* server/storage.ts and server/routes.ts.  Sentiment is a number in [0, 1]
\* there; the model counts it in thousandths, the contract's scale.  Prices
\* are numbers of ether rounded to four decimals: the model counts them in
\* units of 0.0001 ether.  Of an Nft the model keeps the fields createNft
\* computes; of a SentimentData record, marketSentiment.  The collections,
\* the users and the market activity log are not modelled.

\* The values randomUUID can return.
UuidSpace == 1..(MaxNfts + 1)

\* initializeData: the last seeded record has i = 0, so its sentiment is
\* 0.6 plus a noise in [-0.05, 0.05).
SeedSentiments == {550, 649}

\* What a refresh tick can store: the real-world aggregate ranges over
\* [0, 1], the simulation over [0.35, 0.85].
TickSentiments == {0, 500, 900}

Undefined == [defined |-> FALSE]

\* The MemStorage constructor: no NFT, the seeded sentiment history (of
\* which only the last record is ever read by the operations modelled).
MemStorage ==
    /\ nfts = [id \in UuidSpace |-> Undefined]
    /\ sentimentData \in
           {<<[id |-> 1, marketSentiment |-> s]>> : s \in SeedSentiments}
    /\ created = {}

getLatestSentimentData ==
    IF sentimentData = <<>>
    THEN Undefined
    ELSE sentimentData[Len(sentimentData)]

getNft(id) == nfts[id]

\* latestSentiment?.marketSentiment || 0.5 : a missing record and a
\* sentiment of zero both give 0.5.
baseSentimentOf(latestSentiment) ==
    IF latestSentiment = Undefined THEN 500
    ELSE IF latestSentiment.marketSentiment = 0 THEN 500
    ELSE latestSentiment.marketSentiment

\* basePrice * sentimentMultiplier, in units of 10^-8 ether:
\* (0.01 + b * 0.49) * (1 + b * 2).
ProductOf(baseSentiment) ==
    (1000 + baseSentiment * 49) * (1000 + baseSentiment * 2)

\* The product is exact in the model and a double in the code.  Where the
\* exact product ends in ...5000 the double is the nearest representable
\* number, and at these sentiments it lies below the tie.
DoubleBelowTie == {150, 350, 650, 750, 950}

\* Number(x.toFixed(4)): the nearest multiple of 0.0001 to the double x.
toFixed4(product, baseSentiment) ==
    LET whole == product \div 10000
        rest  == product % 10000
    IN  IF rest > 5000 \/ (rest = 5000 /\ baseSentiment \notin DoubleBelowTie)
        THEN whole + 1
        ELSE whole

finalPriceOf(baseSentiment) ==
    toFixed4(ProductOf(baseSentiment), baseSentiment)

rarityTierOf(baseSentiment) ==
    IF baseSentiment > 800 THEN "legendary"
    ELSE IF baseSentiment > 600 THEN "ultra_rare"
    ELSE IF baseSentiment > 400 THEN "rare"
    ELSE "common"

\* The Nft createNft builds from the latest sentiment record.
NewNft(id, latestSentiment) ==
    LET baseSentiment == baseSentimentOf(latestSentiment)
    IN  [defined          |-> TRUE,
         id               |-> id,
         mintPrice        |-> finalPriceOf(baseSentiment),
         currentSentiment |-> baseSentiment,
         rarityTier       |-> rarityTierOf(baseSentiment)]

\* createNft, reached through POST /api/nft/mint.  randomUUID returns an id
\* no NFT has.
createNft(id) ==
    /\ Cardinality(created) < MaxNfts
    /\ getNft(id) = Undefined
    /\ nfts' = [nfts EXCEPT ![id] = NewNft(id, getLatestSentimentData)]
    /\ created' = created \cup {id}
    /\ UNCHANGED <<sentimentData, chainVars, functionVars, clientVars, cacheVars, streamVars, guardVars>>

\* The record createSentimentData stores and returns: the inserted fields
\* and a fresh id (randomUUID, here the record's position in the history).
NewSentimentData(insertData) ==
    [id |-> Len(sentimentData) + 1,
     marketSentiment |-> insertData.marketSentiment]

createSentimentData(insertData) ==
    sentimentData' = Append(sentimentData, NewSentimentData(insertData))

IsOpen_Any(client) == client.state # "none"

\* client.readyState === WebSocket.OPEN
IsOpen(client) == client.state = "open"

\* JSON.stringify({ type: 'sentiment_update', data })
Message(data) == [type |-> "sentiment_update", data |-> data]

\* wss.clients.forEach: one message to every socket that is open.
broadcast(data) ==
    inbox' = [c \in ClientIds |->
                 IF IsOpen(clients[c])
                 THEN Append(inbox[c], Message(data))
                 ELSE inbox[c]]

\* The end of the setInterval callback: the record is stored, and what
\* createSentimentData returned is broadcast.  MemStorage settles its
\* promise without input or output, so the callback resumes and broadcasts
\* before any connection opens, any socket closes or any other tick stores.
storeAndBroadcast(sentiment) ==
    /\ createSentimentData([marketSentiment |-> sentiment])
    /\ broadcast(NewSentimentData([marketSentiment |-> sentiment]))

\* The callback of setInterval run from start to end: one new sentiment
\* record, stored and broadcast.  It reads and writes no Nft.
refreshTick(sentiment) ==
    /\ Len(sentimentData) <= MaxTicks
    /\ storeAndBroadcast(sentiment)
    /\ UNCHANGED <<nfts, created, clients, refresh, chainVars, functionVars, clientVars, cacheVars, guardVars>>

\* GET /api/nft/:id
NftRoute(id) ==
    LET nft == getNft(id)
    IN  IF nft = Undefined
        THEN [status |-> 404, error |-> "NFT not found"]
        ELSE [status |-> 200, body |-> nft]

Next ==
    \/ \E sender \in Senders, _oracle \in OracleInputs :
          setSentimentOracle(sender, _oracle)
    \/ \E sender \in Senders, _sentiment \in SentimentInputs :
          updateSentiment(sender, _sentiment)
    \/ \E sender \in Senders, to \in Recipients, attributes \in AttributeInputs,
          value \in ValueInputs :
          \E accepts \in Accepts(sender) :
              mintNFT(sender, to, attributes, value, accepts)
    \/ \E sender \in Senders : withdraw(sender)

Spec == Init /\ [][Next]_vars

\* The service alone, beside a contract nobody calls.
ServerStarted ==
    /\ Deployed
    /\ MemStorage
    /\ FunctionsIdle
    /\ CacheEmpty
    /\ NoTraffic

NextServer ==
    \/ \E id \in UuidSpace : createNft(id)
    \/ \E sentiment \in TickSentiments : refreshTick(sentiment)

SpecServer == ServerStarted /\ [][NextServer]_vars

\* Mints on both sides: the contract and the service, each with its own
\* identifiers.
NextMints ==
    \/ \E sender \in Senders, to \in Recipients, attributes \in AttributeInputs,
          value \in ValueInputs :
          \E accepts \in Accepts(sender) :
              mintNFT(sender, to, attributes, value, accepts)
    \/ \E sender \in Senders, _sentiment \in SentimentInputs :
          updateSentiment(sender, _sentiment)
    \/ \E id \in UuidSpace : createNft(id)

SpecMints == ServerStarted /\ [][NextMints]_vars

\* The contract with the refund of a mint taken as a step of its own.
NextRefund ==
    \/ \E sender \in Senders, _oracle \in OracleInputs :
          ~frame.inFlight /\ setSentimentOracle(sender, _oracle)
    \/ \E sender \in Senders, _sentiment \in SentimentInputs :
          ~frame.inFlight /\ updateSentiment(sender, _sentiment)
    \/ \E sender \in Senders, to \in Recipients, attributes \in AttributeInputs,
          value \in ValueInputs :
          mintNFTUntilRefund(sender, to, attributes, value)
    \/ \E to \in Recipients, attributes \in AttributeInputs, value \in ValueInputs :
          reenterMintNFT(to, attributes, value)
    \/ \E _sentiment \in SentimentInputs : reenterUpdateSentiment(_sentiment)
    \/ \E accepts \in BOOLEAN : refundReturns(accepts)

SpecRefund == Init /\ [][NextRefund]_vars

\* Clients minting in two steps while the oracle updates the sentiment.
NextClientMint ==
    \/ readMintPrice
    \/ \E wallet \in Senders, attributes \in AttributeInputs :
          \E accepts \in Accepts(wallet) : sendMint(wallet, attributes, accepts)
    \/ \E sender \in Senders, _sentiment \in SentimentInputs :
          updateSentiment(sender, _sentiment)

SpecClientMint == Init /\ [][NextClientMint]_vars

\* The pricing and rarity functions of both engines, evaluated at one
\* sentiment: on the chain with the global sentiment at that value, off it
\* with that value as the latest market sentiment.
Sentiments == 0..1000

SentimentChosen ==
    /\ Deployed
    /\ ServerAbsent
    /\ arg \in Sentiments
    /\ out = Idle

Evaluate ==
    /\ out = Idle
    /\ out' = [evaluated |-> TRUE,
               mintPrice |-> MintPriceAt(arg),
               rarity    |-> getRarityTier(arg),
               nft       |-> NewNft(1, [marketSentiment |-> arg])]
    /\ UNCHANGED <<arg, chainVars, serverVars, guardVars, clientVars, cacheVars, streamVars>>

SpecPricing == SentimentChosen /\ [][Evaluate]_vars

\* --------------------------------------------------------- the oracle client
\* Web3Service.updateSentiment (client/src/lib/web3.ts).  sentimentValue is
\* a number; the model counts it in units of 0.0001, fine enough to have
\* values that round to each side of the bounds.

SentimentValues == (-6..6) \cup (9994..10006) \cup {5000, 15000}

\* Math.round(sentimentValue * 1000)
scaledSentimentOf(sentimentValue) == (sentimentValue + 5) \div 10

NoHash == "undefined"

\* The service as the constructor, initializeContract and initForOracle can
\* leave it, and the value it is asked to send.
ServiceConfigured ==
    /\ Deployed
    /\ ServerAbsent
    /\ arg \in [useMockMode : BOOLEAN, oracleContract : BOOLEAN,
                sentimentValue : SentimentValues]
    /\ out = Idle

\* txConfirmed: whether the transaction the contract is sent goes through.
Web3UpdateSentiment(txConfirmed) ==
    LET scaledSentiment == scaledSentimentOf(arg.sentimentValue)
        result ==
            IF arg.useMockMode /\ ~arg.oracleContract
            THEN [success |-> TRUE, transactionHash |-> "0x...", error |-> ""]
            ELSE IF ~arg.oracleContract
            THEN [success |-> FALSE, transactionHash |-> NoHash,
                  error |-> "Oracle Web3Service not initialized with private key. Cannot update sentiment."]
            ELSE IF scaledSentiment < 0 \/ scaledSentiment > 1000
            THEN [success |-> FALSE, transactionHash |-> NoHash,
                  error |-> "Sentiment value must be between 0 and 1."]
            ELSE IF txConfirmed
            THEN [success |-> TRUE, transactionHash |-> "0x...", error |-> ""]
            ELSE [success |-> FALSE, transactionHash |-> NoHash,
                  error |-> "Failed to send oracle sentiment update transaction."]
    IN  /\ out = Idle
        /\ out' = [evaluated |-> TRUE, result |-> result]
        /\ UNCHANGED <<arg, chainVars, serverVars, guardVars, clientVars, cacheVars, streamVars>>

NextOracleClient == \E txConfirmed \in BOOLEAN : Web3UpdateSentiment(txConfirmed)

SpecOracleClient == ServiceConfigured /\ [][NextOracleClient]_vars

\* The life of one Web3Service object.  arg is the environment it is
\* constructed in: whether a contract address is passed and whether the
\* browser offers a wallet provider.  out is the object: its fields (a
\* contract or wallet is kept as set or not set) and the outcome of the
\* last call made on it.

Environments == [contractAddress : BOOLEAN, provider : BOOLEAN]

EnvironmentChosen ==
    /\ Deployed
    /\ ServerAbsent
    /\ arg \in Environments
    /\ out = Idle

NoCall == [op |-> "none", path |-> "none", success |-> FALSE]

ServiceStep(service) ==
    /\ out' = service
    /\ UNCHANGED <<arg, chainVars, serverVars, guardVars, clientVars, cacheVars, streamVars>>

\* initializeContract, called by the constructor: contractCreated is
\* whether new Contract(...) returns.
initializeContract(service, contractCreated) ==
    IF ~service.provider \/ ~service.contractAddress THEN service
    ELSE IF contractCreated THEN [service EXCEPT !.contract = TRUE]
    ELSE [service EXCEPT !.useMockMode = TRUE]

Web3Constructor(contractCreated) ==
    LET addressed == [evaluated       |-> TRUE,
                      contractAddress |-> arg.contractAddress,
                      useMockMode     |-> ~arg.contractAddress,
                      provider        |-> FALSE,
                      contract        |-> FALSE,
                      oracleContract  |-> FALSE,
                      currentWallet   |-> FALSE,
                      last            |-> NoCall]
        detected == IF arg.provider
                    THEN [addressed EXCEPT !.provider = TRUE,
                                           !.useMockMode = FALSE]
                    ELSE addressed
    IN  /\ out = Idle
        /\ ServiceStep(IF arg.contractAddress /\ detected.provider
                       THEN initializeContract(detected, contractCreated)
                       ELSE detected)

\* connected: whether the provider and the network answer.
initForOracle(connected) ==
    /\ out.evaluated
    /\ ServiceStep(IF connected
                   THEN [out EXCEPT !.contractAddress = TRUE,
                                    !.oracleContract = TRUE,
                                    !.useMockMode = FALSE,
                                    !.last = [op |-> "initForOracle",
                                              path |-> "contract",
                                              success |-> TRUE]]
                   ELSE [out EXCEPT !.contractAddress = TRUE,
                                    !.useMockMode = TRUE,
                                    !.last = [op |-> "initForOracle",
                                              path |-> "contract",
                                              success |-> FALSE]])

\* granted: whether the wallet hands over an account.
connectWallet(granted) ==
    /\ out.evaluated
    /\ ServiceStep(IF out.useMockMode \/ ~out.provider
                   THEN [out EXCEPT !.currentWallet = TRUE,
                                    !.last = [op |-> "connectWallet",
                                              path |-> "mock",
                                              success |-> TRUE]]
                   ELSE IF granted
                   THEN [out EXCEPT !.currentWallet = TRUE,
                                    !.last = [op |-> "connectWallet",
                                              path |-> "contract",
                                              success |-> TRUE]]
                   ELSE [out EXCEPT !.last = [op |-> "connectWallet",
                                              path |-> "contract",
                                              success |-> FALSE]])

disconnectWallet ==
    /\ out.evaluated
    /\ ServiceStep([out EXCEPT !.currentWallet = FALSE,
                               !.last = [op |-> "disconnectWallet",
                                         path |-> "none", success |-> TRUE]])

\* Web3Service.mintNFT: mintMockNFT in mock mode, mintRealNFT otherwise.
Web3MintNFT(txConfirmed) ==
    /\ out.evaluated
    /\ ServiceStep(
           [out EXCEPT !.last =
                IF out.useMockMode
                THEN [op |-> "mintNFT", path |-> "mock", success |-> TRUE]
                ELSE IF ~out.contract \/ ~out.provider \/ ~out.currentWallet
                        \/ ~out.contractAddress
                THEN [op |-> "mintNFT", path |-> "contract", success |-> FALSE]
                ELSE [op |-> "mintNFT", path |-> "contract",
                      success |-> txConfirmed]])

\* Web3Service.updateSentiment with a value in range.
Web3UpdateInRange(txConfirmed) ==
    /\ out.evaluated
    /\ ServiceStep(
           [out EXCEPT !.last =
                IF out.useMockMode /\ ~out.oracleContract
                THEN [op |-> "updateSentiment", path |-> "mock",
                      success |-> TRUE]
                ELSE IF ~out.oracleContract
                THEN [op |-> "updateSentiment", path |-> "contract",
                      success |-> FALSE]
                ELSE [op |-> "updateSentiment", path |-> "contract",
                      success |-> txConfirmed]])

isMockMode == out.useMockMode

NextWeb3Service ==
    \/ \E contractCreated \in BOOLEAN : Web3Constructor(contractCreated)
    \/ \E connected \in BOOLEAN : initForOracle(connected)
    \/ \E granted \in BOOLEAN : connectWallet(granted)
    \/ disconnectWallet
    \/ \E txConfirmed \in BOOLEAN : Web3MintNFT(txConfirmed)
    \/ \E txConfirmed \in BOOLEAN : Web3UpdateInRange(txConfirmed)

SpecWeb3Service == EnvironmentChosen /\ [][NextWeb3Service]_vars

\* ------------------------------------------------------- the source cache
\* RealSentimentService.fetchWithCache (client/src/lib/real-sentiment.ts),
\* for one key: the keys do not touch each other's entries.  A call that
\* finds no fresh entry waits for its fetcher, and other calls run while it
\* waits.  The clock counts in units of the time-to-live of five minutes,
\* so an entry is fresh in the unit it was stored in and stale afterwards.

cacheTTL == 1

FetchedData == {"a", "b"}

\* cached && Date.now() - cached.timestamp < this.cacheTTL
IsFresh(cached, time) == cached.stored /\ time - cached.timestamp < cacheTTL

\* How a call ended.
Ended(outcome, data, fetcher, cached) ==
    settled' = [ended |-> TRUE, outcome |-> outcome, data |-> data,
                fetcher |-> fetcher, cachedAtStart |-> cached,
                cacheBefore |-> cache, at |-> now]

CacheStep == UNCHANGED <<chainVars, serverVars, functionVars, guardVars,
                         clientVars, streamVars>>

\* The call up to its await: a fresh entry is returned at once.
fetchWithCache(c) ==
    LET cached == cache
    IN  /\ ~pending[c].active
        /\ IF IsFresh(cached, now)
           THEN /\ Ended("returned", cached.data, "not invoked", cached)
                /\ UNCHANGED <<cache, pending>>
           ELSE /\ pending' = [pending EXCEPT
                                   ![c] = [active |-> TRUE, cached |-> cached]]
                /\ UNCHANGED <<cache, settled>>
        /\ UNCHANGED now
        /\ CacheStep

\* await fetcher() returns data.
fetcherResolves(c, data) ==
    /\ pending[c].active
    /\ cache' = [stored |-> TRUE, data |-> data, timestamp |-> now]
    /\ Ended("returned", data, "resolved", pending[c].cached)
    /\ pending' = [pending EXCEPT ![c] = NotCalling]
    /\ UNCHANGED now
    /\ CacheStep

\* await fetcher() throws.
fetcherRejects(c) ==
    LET cached == pending[c].cached
    IN  /\ pending[c].active
        /\ IF cached.stored
           THEN Ended("returned", cached.data, "rejected", cached)
           ELSE Ended("threw", "error", "rejected", cached)
        /\ pending' = [pending EXCEPT ![c] = NotCalling]
        /\ UNCHANGED <<cache, now>>
        /\ CacheStep

timePasses ==
    /\ now < MaxClock
    /\ now' = now + 1
    /\ UNCHANGED <<cache, pending, settled>>
    /\ CacheStep

NextCache ==
    \/ \E c \in CallIds : fetchWithCache(c)
    \/ \E c \in CallIds, data \in FetchedData : fetcherResolves(c, data)
    \/ \E c \in CallIds : fetcherRejects(c)
    \/ timePasses

SpecCache == Init /\ [][NextCache]_vars

\* ------------------------------------------------------ the sentiment sources
\* RealSentimentService.getRealWorldSentiment (client/src/lib/real-sentiment.ts).
\* Each source settles fulfilled with a sentiment or rejected.  Weights are
\* counted in tenths; overall is kept as an exact fraction of thousandths.

SourceNames == <<"crypto", "fearGreed", "news">>

SourceWeights == [crypto |-> 5, fearGreed |-> 3, news |-> 2]

SourceRejected == [status |-> "rejected"]

SourceSettlements ==
    {SourceRejected}
        \cup {[status |-> "fulfilled", sentiment |-> s] : s \in {0, 500, 1000}}

SourcesSettled ==
    /\ Deployed
    /\ ServerAbsent
    /\ arg \in [{"crypto", "fearGreed", "news"} -> SourceSettlements]
    /\ out = Idle

\* The loop over the settled results, from the index-th on.
RECURSIVE Accumulate(_, _, _)
Accumulate(results, index, acc) ==
    IF index > Len(SourceNames) THEN acc
    ELSE LET name == SourceNames[index]
             result == results[name]
         IN  IF result.status = "fulfilled"
             THEN Accumulate(results, index + 1,
                      [weightedSentiment |->
                           acc.weightedSentiment
                               + result.sentiment * SourceWeights[name],
                       totalWeight |-> acc.totalWeight + SourceWeights[name],
                       sourceResults |->
                           [acc.sourceResults EXCEPT ![name] = result.sentiment]])
             ELSE Accumulate(results, index + 1,
                      [acc EXCEPT !.sourceResults[name] = 500])

Clamp(fraction) ==
    IF fraction.num < 0 THEN [num |-> 0, den |-> 1]
    ELSE IF fraction.num > 1000 * fraction.den THEN [num |-> 1000, den |-> 1]
    ELSE fraction

getRealWorldSentiment(results) ==
    LET acc == Accumulate(results, 1,
                   [weightedSentiment |-> 0, totalWeight |-> 0,
                    sourceResults |-> [name \in DOMAIN results |-> 0]])
        overall == IF acc.totalWeight > 0
                   THEN [num |-> acc.weightedSentiment, den |-> acc.totalWeight]
                   ELSE [num |-> 500, den |-> 1]
    IN  [evaluated |-> TRUE, overall |-> Clamp(overall),
         sources |-> acc.sourceResults]

Aggregate ==
    /\ out = Idle
    /\ out' = getRealWorldSentiment(arg)
    /\ UNCHANGED <<arg, chainVars, serverVars, guardVars, clientVars, cacheVars, streamVars>>

SpecSources == SourcesSettled /\ [][Aggregate]_vars

\* -------------------------------------------------------- the update stream
\* server/routes.ts: the WebSocket server and the setInterval refresh task.
\* refresh.useReal is USE_REAL_SENTIMENT === 'true'; refresh.fresh holds the
\* sources whose answer is cached (every tick modelled falls within one
\* cacheTTL of the first); refresh.ticks follows each tick.  A socket record
\* also remembers how long the history was when it opened and closed.

SourceSet == {SourceNames[i] : i \in 1..Len(SourceNames)}

\* The simulation: 0.6 + 0.2 sin(..) plus a noise in [-0.05, 0.05).
SimulatedSentiments == {500, 900}

StreamStarted ==
    /\ Deployed
    /\ MemStorage
    /\ FunctionsIdle
    /\ CacheEmpty
    /\ clients = [c \in ClientIds |-> NoSocket]
    /\ inbox = [c \in ClientIds |-> <<>>]
    /\ refresh \in {[useReal |-> useReal, fresh |-> {},
                     ticks |-> [t \in TickIds |-> NotFired]] :
                        useReal \in BOOLEAN}

\* wss.on('connection'): the latest record is read at once and sent in the
\* continuation that runs before the event loop takes its next event.
connect(c) ==
    /\ clients[c] = NoSocket
    /\ clients' = [clients EXCEPT
                       ![c] = [state |-> "open",
                               connectedAt |-> Len(sentimentData)]]
    /\ inbox' = [inbox EXCEPT
                     ![c] = IF IsOpen(clients'[c])
                            THEN Append(@, Message(getLatestSentimentData))
                            ELSE @]
    /\ UNCHANGED <<refresh, serverVars, chainVars, functionVars, clientVars, cacheVars, guardVars>>

\* The socket closes: its readyState is no longer OPEN.
close(c) ==
    /\ clients[c].state = "open"
    /\ clients' = [clients EXCEPT
                       ![c] = [state |-> "closed",
                               connectedAt |-> clients[c].connectedAt,
                               closedAt |-> Len(sentimentData)]]
    /\ UNCHANGED <<inbox, refresh, serverVars, chainVars, functionVars, clientVars, cacheVars, guardVars>>

\* setInterval fires its callbacks in order, every 30 seconds.
TickDue(t) ==
    /\ refresh.ticks[t] = NotFired
    /\ \A u \in TickIds : u < t => refresh.ticks[u] # NotFired

TickStored == [state |-> "stored", id |-> Len(sentimentData) + 1]

\* A tick of the simulation (the else branch): it runs to its end.
simulatedTick(t, sentiment) ==
    /\ ~refresh.useReal
    /\ TickDue(t)
    /\ storeAndBroadcast(sentiment)
    /\ refresh' = [refresh EXCEPT !.ticks[t] = TickStored]
    /\ UNCHANGED <<clients, nfts, created, chainVars, functionVars, clientVars, cacheVars, guardVars>>

\* A tick with real sentiment, up to await getRealWorldSentiment(): every
\* source without a fresh cache entry is fetched, and Promise.allSettled
\* waits for all of them.
realTickFires(t) ==
    /\ refresh.useReal
    /\ TickDue(t)
    /\ refresh' = [refresh EXCEPT
                       !.ticks[t] = [state |-> "awaiting",
                                     unsettled |-> SourceSet \ refresh.fresh]]
    /\ UNCHANGED <<clients, inbox, serverVars, chainVars, functionVars, clientVars, cacheVars, guardVars>>

\* The fetch of one source answers or fails; an answer is cached.  fetch is
\* called without timeout or abort signal: nothing but the remote server
\* makes this step happen.
sourceSettles(t, name, fulfilled) ==
    /\ refresh.ticks[t].state = "awaiting"
    /\ name \in refresh.ticks[t].unsettled
    /\ refresh' = [refresh EXCEPT
                       !.ticks[t].unsettled = @ \ {name},
                       !.fresh = IF fulfilled THEN @ \cup {name} ELSE @]
    /\ UNCHANGED <<clients, inbox, serverVars, chainVars, functionVars, clientVars, cacheVars, guardVars>>

\* All sources have settled: getRealWorldSentiment returns its overall
\* value (it never rejects, so the catch branch is dead) and the tick
\* stores and broadcasts.
realTickResumes(t, sentiment) ==
    /\ refresh.ticks[t].state = "awaiting"
    /\ refresh.ticks[t].unsettled = {}
    /\ storeAndBroadcast(sentiment)
    /\ refresh' = [refresh EXCEPT !.ticks[t] = TickStored]
    /\ UNCHANGED <<clients, nfts, created, chainVars, functionVars, clientVars, cacheVars, guardVars>>

NextStream ==
    \/ \E c \in ClientIds : connect(c)
    \/ \E c \in ClientIds : close(c)
    \/ \E t \in TickIds, sentiment \in SimulatedSentiments :
          simulatedTick(t, sentiment)
    \/ \E t \in TickIds : realTickFires(t)
    \/ \E t \in TickIds, name \in SourceSet, fulfilled \in BOOLEAN :
          sourceSettles(t, name, fulfilled)
    \/ \E t \in TickIds, sentiment \in TickSentiments :
          realTickResumes(t, sentiment)

SpecStream == StreamStarted /\ [][NextStream]_vars

\* What the server does by itself: the timer fires, and a callback whose
\* awaited promise has settled resumes.  Nothing obliges a remote source to
\* answer, a client to connect or a socket to close.
ServerFairness ==
    \A t \in TickIds :
        /\ WF_vars(\E sentiment \in SimulatedSentiments :
                       simulatedTick(t, sentiment))
        /\ WF_vars(realTickFires(t))
        /\ WF_vars(\E sentiment \in TickSentiments :
                       realTickResumes(t, sentiment))

SpecStreamFair == SpecStream /\ ServerFairness

\* ------------------------------------------------------------------ claims

ExistingTokens == {i \in TokenIdSpace : _exists(i)}

\* The tokens that existed when the last transaction began.
TokensBefore == {i \in TokenIdSpace : before.owners[i] # ZeroAddress}

UpdateSucceeded == lastTx.op = "updateSentiment" /\ lastTx.ok

MintSucceeded == lastTx.op = "mintNFT" /\ lastTx.ok

\* The NFTEvolved events of the last transaction that name token i.
EvolvedEventsOf(i) ==
    SelectSeq(events, LAMBDA e : e.name = "NFTEvolved" /\ e.tokenId = i)

EvolvedEvents == SelectSeq(events, LAMBDA e : e.name = "NFTEvolved")

\* C1: in every reachable state, every existing token's currentSentiment
\* equals the contract's global currentSentiment.
C1_TokensTrackGlobalSentiment ==
    \A i \in ExistingTokens :
        nftMetadata[i].currentSentiment = currentSentiment

\* Two tokens minted at different sentiments, then an update to a third value.
C1_Witness ==
    /\ UpdateSucceeded
    /\ tokenIds = 2
    /\ nftMetadata[1].mintSentiment # nftMetadata[2].mintSentiment
    /\ currentSentiment \notin {nftMetadata[1].mintSentiment,
                                nftMetadata[2].mintSentiment}

\* C2: in every reachable state, every existing token's stored rarity is
\* getRarityTier of that token's stored currentSentiment.
C2_RarityNeverStale ==
    \A i \in ExistingTokens :
        nftMetadata[i].rarity = getRarityTier(nftMetadata[i].currentSentiment)

\* A token whose tier an update has moved away from its tier at mint.
C2_Witness ==
    /\ UpdateSucceeded
    /\ \E i \in ExistingTokens :
           nftMetadata[i].rarity # getRarityTier(nftMetadata[i].mintSentiment)

\* C3: a token's mintSentiment is the global sentiment of the moment it was
\* minted, and no transaction changes the mintSentiment of a token that
\* already exists.
C3_MintSentimentFixed ==
    /\ \A i \in TokensBefore :
           nftMetadata[i].mintSentiment = before.nftMetadata[i].mintSentiment
    /\ \A i \in ExistingTokens \ TokensBefore :
           /\ lastTx.op = "mintNFT"
           /\ nftMetadata[i].mintSentiment = before.currentSentiment

\* An update has moved the sentiment of a token away from its mintSentiment,
\* and a further successful update has just run.
C3_Witness ==
    /\ UpdateSucceeded
    /\ \E i \in TokensBefore :
           /\ before.nftMetadata[i].currentSentiment # nftMetadata[i].mintSentiment
           /\ nftMetadata[i].currentSentiment # nftMetadata[i].mintSentiment
           /\ nftMetadata[i].currentSentiment # before.nftMetadata[i].currentSentiment

\* C4: a successful updateSentiment(v) emits one NFTEvolved(id, v,
\* getRarityTier(v)) for each existing token whose tier before the update
\* differs from getRarityTier(v), and none for any other token.
C4_EvolvedExactlyWhenTierChanges ==
    UpdateSucceeded =>
        LET v == lastTx.sentiment
        IN  /\ \A i \in TokenIdSpace :
                   Len(EvolvedEventsOf(i)) =
                       IF /\ i \in TokensBefore
                          /\ before.nftMetadata[i].rarity # getRarityTier(v)
                       THEN 1 ELSE 0
            /\ \A k \in 1..Len(EvolvedEvents) :
                   /\ EvolvedEvents[k].newSentiment = v
                   /\ EvolvedEvents[k].newRarity = getRarityTier(v)

\* The example of the claim: a token minted at 500 (Rare), then
\* updateSentiment(900), and the one NFTEvolved for it is Legendary.
C4_Witness ==
    /\ UpdateSucceeded
    /\ lastTx.sentiment = 900
    /\ tokenIds = 1
    /\ nftMetadata[1].mintSentiment = 500
    /\ before.nftMetadata[1].rarity = "Rare"
    /\ EvolvedEvents =
           <<[name |-> "NFTEvolved", tokenId |-> 1, newSentiment |-> 900,
              newRarity |-> "Legendary"]>>

\* C5: when updateSentiment(s) succeeds right after a successful
\* updateSentiment(s), the second one leaves the global sentiment and every
\* token record as the first left them, and emits no NFTEvolved.
C5_UpdateIdempotent ==
    (UpdateSucceeded /\ lastTx.repeats) =>
        /\ currentSentiment = before.currentSentiment
        /\ nftMetadata = before.nftMetadata
        /\ EvolvedEvents = <<>>

\* The repeated update, of tokens whose tier the first one had changed.
C5_Witness ==
    /\ UpdateSucceeded
    /\ lastTx.repeats
    /\ tokenIds = 2
    /\ \A i \in ExistingTokens :
           nftMetadata[i].rarity # getRarityTier(nftMetadata[i].mintSentiment)

\* Whether the caller of the last transaction passed onlyOracle.
CallerWasAuthorized ==
    lastTx.sender = before.sentimentOracle \/ lastTx.sender = Owner

\* The global sentiment and every token record are as before the transaction.
SentimentStateUnchanged ==
    /\ currentSentiment = before.currentSentiment
    /\ nftMetadata = before.nftMetadata

\* C6: updateSentiment by a caller that is neither the oracle nor the owner
\* fails with "Not authorized oracle" whatever its argument, changes neither
\* the global sentiment nor a token record and emits nothing; by the oracle or
\* the owner with a value in 0..1000 it succeeds.
C6_OnlyOracleOrOwnerUpdates ==
    lastTx.op = "updateSentiment" =>
        IF CallerWasAuthorized
        THEN lastTx.sentiment \in 0..1000 => lastTx.ok
        ELSE /\ ~lastTx.ok
             /\ lastTx.error = "Not authorized oracle"
             /\ SentimentStateUnchanged
             /\ events = <<>>

\* A stranger's update with an illegal value, tokens existing: the
\* authorization failure is the one reported.
C6_Witness ==
    /\ lastTx.op = "updateSentiment"
    /\ ~CallerWasAuthorized
    /\ lastTx.sentiment = 1001
    /\ lastTx.error = "Not authorized oracle"
    /\ ExistingTokens # {}

\* C7: updateSentiment with a value above 1000 fails, for the authorized
\* oracle with "Sentiment must be <= 1000", and changes neither the global
\* sentiment nor any token's currentSentiment or rarity and emits no event.
C7_OutOfRangeUpdateRejected ==
    (lastTx.op = "updateSentiment" /\ lastTx.sentiment > 1000) =>
        /\ ~lastTx.ok
        /\ CallerWasAuthorized => lastTx.error = "Sentiment must be <= 1000"
        /\ currentSentiment = before.currentSentiment
        /\ \A i \in TokenIdSpace :
               /\ nftMetadata[i].currentSentiment =
                      before.nftMetadata[i].currentSentiment
               /\ nftMetadata[i].rarity = before.nftMetadata[i].rarity
        /\ events = <<>>

\* The designated oracle (not the owner) sends 1001 while a token exists.
C7_Witness ==
    /\ lastTx.op = "updateSentiment"
    /\ lastTx.sentiment = 1001
    /\ lastTx.sender = before.sentimentOracle
    /\ lastTx.sender # Owner
    /\ lastTx.error = "Sentiment must be <= 1000"
    /\ ExistingTokens # {}

\* The price getCurrentMintPrice() gave when the last transaction began.
PriceBefore == MintPriceAt(before.currentSentiment)

\* A mint that failed for want of payment and changed nothing.
InsufficientPaymentRejected ==
    /\ ~lastTx.ok
    /\ lastTx.error = "Insufficient payment"
    /\ nftMetadata = before.nftMetadata
    /\ owners = before.owners
    /\ tokenIds = before.tokenIds
    /\ balance = before.balance
    /\ events = <<>>
    /\ transfers = <<>>

\* C8 as stated: mintNFT paying less than the price fails with "Insufficient
\* payment" and changes nothing, and paying exactly the price succeeds.
C8_Original ==
    lastTx.op = "mintNFT" =>
        /\ lastTx.value < PriceBefore => InsufficientPaymentRejected
        /\ lastTx.value = PriceBefore => lastTx.ok

\* C8, amended: mintNFT paying less than the price fails with "Insufficient
\* payment" and changes nothing (no record, counter, token balance or funds);
\* paying exactly the price it succeeds when the recipient is not the zero
\* address (_mint reverts for the zero address).
C8_PaymentBelowPriceRejected ==
    lastTx.op = "mintNFT" =>
        /\ lastTx.value < PriceBefore => InsufficientPaymentRejected
        /\ (lastTx.value = PriceBefore /\ lastTx.to # ZeroAddress) => lastTx.ok

\* A token was minted at exactly the price; an update then raised the price,
\* and a second mint paying the old price is refused.
C8_Witness ==
    /\ lastTx.op = "mintNFT"
    /\ lastTx.value = MintPriceAt(500)
    /\ before.currentSentiment = 900
    /\ lastTx.error = "Insufficient payment"
    /\ lastTx.to = Alice
    /\ balanceOf(Alice) = 1
    /\ tokenIds = 1
    /\ balance = MintPriceAt(500)

\* C9: after a successful mintNFT paying p, the contract's balance has grown
\* by exactly the mint price, and the excess p - price, if any, went in one
\* transfer to msg.sender and nothing went to anyone else.
C9_ExcessRefundedToPayer ==
    MintSucceeded =>
        /\ lastTx.value >= PriceBefore
        /\ balance = before.balance + PriceBefore
        /\ transfers =
               IF lastTx.value > PriceBefore
               THEN <<[to |-> lastTx.sender,
                       amount |-> lastTx.value - PriceBefore]>>
               ELSE <<>>

\* The owner overpays a mint for another account.
C9_Witness ==
    /\ MintSucceeded
    /\ lastTx.sender = Owner
    /\ lastTx.to = Alice
    /\ lastTx.value > PriceBefore
    /\ Len(transfers) = 1
    /\ before.balance > 0

\* C10: a successful mintNFT(to, ...) creates exactly one token, the next id,
\* owned by `to`, with mintSentiment = currentSentiment = the global sentiment
\* and rarity its tier; emits exactly one NFTMinted(id, to, sentiment, price)
\* with the global sentiment and the mint price of that moment; and changes
\* no record or owner of another id.
C10_MintCreatesOneRecord ==
    MintSucceeded =>
        LET id == lastTx.result
        IN  /\ id = before.tokenIds + 1
            /\ tokenIds = id
            /\ ExistingTokens = TokensBefore \cup {id}
            /\ id \notin TokensBefore
            /\ owners[id] = lastTx.to
            /\ nftMetadata[id].mintSentiment = before.currentSentiment
            /\ nftMetadata[id].currentSentiment = before.currentSentiment
            /\ nftMetadata[id].rarity = getRarityTier(before.currentSentiment)
            /\ events =
                   <<[name |-> "NFTMinted", tokenId |-> id, to |-> lastTx.to,
                      sentiment |-> before.currentSentiment,
                      price |-> PriceBefore]>>
            /\ \A j \in TokenIdSpace \ {id} :
                   /\ nftMetadata[j] = before.nftMetadata[j]
                   /\ owners[j] = before.owners[j]

\* The second mint, by the owner for another account, after an update moved
\* the sentiment and the first token's tier.
C10_Witness ==
    /\ MintSucceeded
    /\ lastTx.result = 2
    /\ lastTx.sender = Owner
    /\ owners[2] = Alice
    /\ nftMetadata[2].mintSentiment = 900
    /\ nftMetadata[1].mintSentiment = 500
    /\ nftMetadata[2].rarity = "Legendary"


\* C11: for every existing token, getSentimentEvolution returns the global
\* sentiment of the moment the token was minted (fixed by its mint, the same
\* after every later transaction), the latest global sentiment, and their
\* signed difference current - original.
C11_EvolutionReportsSignedDelta ==
    \A i \in ExistingTokens :
        LET evolution == getSentimentEvolution(i)
        IN  /\ evolution.ok
            /\ evolution.originalSentiment =
                   IF i \in TokensBefore
                   THEN before.nftMetadata[i].mintSentiment
                   ELSE before.currentSentiment
            /\ evolution.currentSentimentValue = currentSentiment
            /\ evolution.originalSentiment + evolution.sentimentChange =
                   currentSentiment

\* Token 1 minted at 500 and token 2 at 1000, then an update to 900: the
\* evolutions are (500, 900, +400) and (1000, 900, -100).
C11_Witness ==
    /\ UpdateSucceeded
    /\ getSentimentEvolution(1) =
           [ok |-> TRUE, originalSentiment |-> 500,
            currentSentimentValue |-> 900, sentimentChange |-> 400]
    /\ getSentimentEvolution(2) =
           [ok |-> TRUE, originalSentiment |-> 1000,
            currentSentimentValue |-> 900, sentimentChange |-> -100]


\* C12: identifiers that were never issued are rejected.  On the chain,
\* getNFTData and getSentimentEvolution succeed for exactly the ids
\* 1..totalSupply and fail with "Token does not exist" for 0 and for every
\* id above the number of tokens minted; off the chain, getNft of an id
\* createNft never returned is undefined and the route answers 404.
C12_UnknownIdsRejected ==
    /\ \A tokenId \in TokenIdSpace :
           IF tokenId \in 1..totalSupply
           THEN getNFTData(tokenId).ok /\ getSentimentEvolution(tokenId).ok
           ELSE /\ getNFTData(tokenId) = NotFound
                /\ getSentimentEvolution(tokenId) = NotFound
    /\ \A id \in UuidSpace \ created :
           /\ getNft(id) = Undefined
           /\ NftRoute(id).status = 404

C12_Witness ==
    /\ totalSupply = 1
    /\ getNFTData(0) = NotFound
    /\ getSentimentEvolution(2) = NotFound
    /\ getNFTData(1).ok
    /\ created = {2}
    /\ NftRoute(1).status = 404
    /\ NftRoute(2).status = 200


\* 0.3825 ether and 0.001 ether in the contract's unit of 10^10 wei, and in
\* the service's unit of 0.0001 ether.
ReferencePrice == 38250000

Epsilon == 100000

Distance(a, b) == IF a >= b THEN a - b ELSE b - a

\* An on-chain price to four decimals of an ether: the nearest multiple of
\* 0.0001 ether, in that unit.
ToFourDecimals(price) == (price + 5000) \div 10000

\* C13: the mint price at the neutral sentiment 500, on the chain and in
\* createNft at market sentiment 0.5, is within 0.001 ether of the reference
\* price 0.3825 ether.
C13_NeutralPriceNearReference ==
    (out.evaluated /\ arg = 500) =>
        /\ Distance(out.mintPrice, ReferencePrice) <= Epsilon
        /\ Distance(out.nft.mintPrice, ToFourDecimals(ReferencePrice))
               <= ToFourDecimals(Epsilon)

\* C14: the mint price is strictly increasing in the sentiment: the price at
\* a sentiment is above the price at every lower sentiment.
C14_PriceStrictlyIncreasing ==
    out.evaluated =>
        \A s1 \in Sentiments : s1 < arg => MintPriceAt(s1) < out.mintPrice

C14_Witness ==
    /\ out.evaluated
    /\ arg = 900
    /\ out.mintPrice > MintPriceAt(500)

TierRank == [Common |-> 0, Rare |-> 1, UltraRare |-> 2, Legendary |-> 3]

\* C15: getRarityTier is Common up to 400, Rare on 401..600, UltraRare on
\* 601..800 and Legendary on 801..1000, hence never lower at a higher
\* sentiment.
C15_TierThresholds ==
    out.evaluated =>
        /\ out.rarity = "Common" <=> arg <= 400
        /\ out.rarity = "Rare" <=> arg \in 401..600
        /\ out.rarity = "UltraRare" <=> arg \in 601..800
        /\ out.rarity = "Legendary" <=> arg \in 801..1000
        /\ \A s1 \in Sentiments :
               s1 < arg => TierRank[getRarityTier(s1)] <= TierRank[out.rarity]

C15_Witness ==
    /\ out.evaluated
    /\ arg = 601
    /\ out.rarity = "UltraRare"
    /\ getRarityTier(600) = "Rare"


\* The service's name of each tier of the contract.
OffChainTier ==
    [Common |-> "common", Rare |-> "rare", UltraRare |-> "ultra_rare",
     Legendary |-> "legendary"]

\* C18: at every sentiment 0..1000, createNft with that latest market
\* sentiment assigns the tier getRarityTier gives and a mintPrice equal to
\* getCurrentMintPrice expressed to four decimals of an ether.
C18_EnginesAgreeOnMint ==
    out.evaluated =>
        /\ out.nft.rarityTier = OffChainTier[out.rarity]
        /\ out.nft.mintPrice = ToFourDecimals(out.mintPrice)


\* C17: once a refresh tick has stored a new market sentiment, the
\* currentSentiment of every stored Nft equals the latest stored
\* marketSentiment.
C17_NftsTrackLatestSentiment ==
    Len(sentimentData) > 1 =>
        \A id \in created :
            getNft(id).currentSentiment = getLatestSentimentData.marketSentiment


\* C16: while a mintNFT call waits for its refund to return, every call the
\* refunded sender makes into mintNFT or updateSentiment is rejected, and
\* the sentiment and the token records stay as the unfinished mint wrote
\* them.
C16_ReentrantCallsRejected ==
    frame.inFlight =>
        /\ reentrant.attempted => ~reentrant.ok
        /\ currentSentiment = before.currentSentiment
        /\ tokenIds = before.tokenIds + 1
        /\ owners = [before.owners EXCEPT ![tokenIds] = frame.call.to]
        /\ nftMetadata =
               [before.nftMetadata EXCEPT ![tokenIds] =
                    [mintSentiment    |-> before.currentSentiment,
                     currentSentiment |-> before.currentSentiment,
                     rarity           |-> getRarityTier(before.currentSentiment),
                     attributes       |-> frame.call.attributes]]

C16_Witness ==
    /\ frame.inFlight
    /\ sentimentOracle = frame.call.sender
    /\ reentrant = [attempted |-> TRUE, op |-> "updateSentiment", ok |-> FALSE,
                    error |-> "out of gas"]


\* C19: whenever round(sentimentValue * 1000) is outside [0, 1000],
\* Web3Service.updateSentiment returns a failure without a transaction
\* hash, in mock mode as with the oracle contract.
C19_OutOfRangeNeverSucceeds ==
    (out.evaluated /\ scaledSentimentOf(arg.sentimentValue) \notin 0..1000) =>
        /\ ~out.result.success
        /\ out.result.transactionHash = NoHash

\* The sentiment a source contributes when a failed one counts as neutral.
NeutralIfFailed(result) ==
    IF result.status = "fulfilled" THEN result.sentiment ELSE 500

\* C20: overall is the average with the fixed weights 0.5, 0.3 and 0.2 in
\* which every source that failed counts as 0.5, whichever sources failed.
C20_FailedSourcesCountNeutral ==
    out.evaluated =>
        out.overall.num * 10 =
            out.overall.den
                * ( SourceWeights.crypto * NeutralIfFailed(arg.crypto)
                  + SourceWeights.fearGreed * NeutralIfFailed(arg.fearGreed)
                  + SourceWeights.news * NeutralIfFailed(arg.news) )


WithdrawSucceeded == lastTx.op = "withdraw" /\ lastTx.ok

\* Whether the last transaction left the contract's storage and balance as
\* they were and emitted and sent nothing.
NothingChanged ==
    /\ Snapshot = before
    /\ events = <<>>
    /\ transfers = <<>>

\* C23: currentSentiment is 500 at deployment, always lies in [0, 1000], and
\* differs from its value before the last transaction only when that was a
\* successful updateSentiment by the oracle or the owner; mintNFT,
\* setSentimentOracle, withdraw and reverted calls leave it as it was.
C23_SentimentChangesOnlyByUpdate ==
    /\ lastTx.op = "constructor" => currentSentiment = 500
    /\ currentSentiment \in 0..1000
    /\ currentSentiment # before.currentSentiment =>
           UpdateSucceeded /\ CallerWasAuthorized
    /\ (~lastTx.ok \/ lastTx.op \in {"mintNFT", "setSentimentOracle", "withdraw"})
           => currentSentiment = before.currentSentiment

C23_Witness ==
    /\ UpdateSucceeded
    /\ lastTx.sender = Alice
    /\ before.currentSentiment = 500
    /\ currentSentiment = 900
    /\ tokenIds > 0
    /\ balance > 0

C26_IdsSequential ==
    /\ totalSupply = successfulMints
    /\ ExistingTokens = 1..totalSupply
    /\ TokensBefore \subseteq ExistingTokens
    /\ lastTx.op = "mintNFT" =>
           IF lastTx.ok
           THEN lastTx.result = before.tokenIds + 1 /\ tokenIds = lastTx.result
           ELSE tokenIds = before.tokenIds /\ ExistingTokens = TokensBefore

C26_Witness ==
    /\ lastTx.op = "mintNFT"
    /\ ~lastTx.ok
    /\ successfulMints = 1
    /\ ExistingTokens = {1}

RECURSIVE SumPrices(_)
SumPrices(log) ==
    IF log = <<>> THEN 0
    ELSE (IF Head(log).name = "NFTMinted" THEN Head(log).price ELSE 0)
             + SumPrices(Tail(log))

\* C27: the contract's balance is the sum of the NFTMinted prices of the
\* successful mints since the last successful withdraw (zero right after
\* one); a mint adds exactly its price whatever was paid, and failed
\* transactions and sentiment updates leave the balance as it was.
C27_FundsConserved ==
    /\ balance = mintedSinceWithdraw
    /\ WithdrawSucceeded => balance = 0
    /\ MintSucceeded => balance = before.balance + SumPrices(events)
    /\ (~lastTx.ok \/ lastTx.op = "updateSentiment") => balance = before.balance

C27_Witness ==
    /\ MintSucceeded
    /\ lastTx.value > SumPrices(events)
    /\ before.balance > 0
    /\ balance = before.balance + SumPrices(events)
    /\ balance # lastTx.value + before.balance

\* C29: all existing tokens hold the same rarity tier, so a successful
\* updateSentiment emits NFTEvolved for every token that existed or for
\* none.
C29_TiersUniform ==
    /\ \A i, j \in ExistingTokens : nftMetadata[i].rarity = nftMetadata[j].rarity
    /\ UpdateSucceeded =>
           LET evolved == {i \in TokensBefore : EvolvedEventsOf(i) # <<>>}
           IN  evolved = {} \/ evolved = TokensBefore

C29_Witness ==
    /\ UpdateSucceeded
    /\ Cardinality(TokensBefore) = 2
    /\ Len(EvolvedEvents) = 2
    /\ before.nftMetadata[1].mintSentiment # before.nftMetadata[2].mintSentiment


\* C28: however updateSentiment transactions interleave with a client's
\* read of the price and its mintNFT paying the value read, a token that is
\* minted is charged the price at the sentiment recorded as its
\* mintSentiment, in the NFTMinted event and in the amount the contract
\* keeps; a payment below the price at the time of the mint is rejected and
\* creates no token.
C28_ChargedAtMintSentiment ==
    lastTx.op = "mintNFT" =>
        IF lastTx.ok
        THEN LET charged == MintPriceAt(nftMetadata[tokenIds].mintSentiment)
             IN  /\ tokenIds = before.tokenIds + 1
                 /\ SumPrices(events) = charged
                 /\ balance - before.balance = charged
                 /\ lastTx.value >= charged
        ELSE /\ NothingChanged
             /\ lastTx.value < MintPriceAt(before.currentSentiment)
                    => lastTx.error = "Insufficient payment"

C28_Witness ==
    /\ lastTx.op = "mintNFT"
    /\ ~lastTx.ok
    /\ lastTx.error = "Insufficient payment"
    /\ quote = [read |-> TRUE, mintPrice |-> MintPriceAt(500)]
    /\ lastTx.value = quote.mintPrice
    /\ currentSentiment = 900
    /\ tokenIds = before.tokenIds


\* C25: a Web3Service constructed without a contract address is in mock
\* mode, and its mintNFT and updateSentiment take the simulated path, with
\* or without a wallet provider, as long as no initForOracle has succeeded.
C25_NoAddressMeansMock ==
    (out.evaluated /\ ~arg.contractAddress /\ ~out.oracleContract) =>
        /\ isMockMode
        /\ out.last.op \in {"mintNFT", "updateSentiment"} => out.last.path = "mock"


\* C30: a failed fetch never destroys or replaces cached data: when the
\* fetcher fails while an entry exists, the cached value is returned and
\* the entry stays as it was; the failure reaches the
\* caller only when no entry has ever been stored (entries are never
\* removed, so: only when the cache holds none); an entry younger than the
\* time-to-live is returned without invoking the fetcher.
C30_FailureOnlyWithoutEntry ==
    /\ settled.ended =>
           /\ (settled.fetcher = "rejected" /\ settled.cacheBefore.stored) =>
                  /\ settled.outcome = "returned"
                  /\ cache = settled.cacheBefore
           /\ settled.outcome = "threw" => ~settled.cacheBefore.stored
           /\ settled.fetcher = "not invoked" =>
                  settled.at - settled.cachedAtStart.timestamp < cacheTTL
    /\ \A c \in CallIds :
           (pending[c].active /\ pending[c].cached.stored) =>
               now - pending[c].cached.timestamp >= cacheTTL

\* What does hold of fetchWithCache: the outcome of a failed fetch depends
\* on the entry the call found when it began, not on the cache at the time
\* of the failure.  That entry's value is returned if there was one, the
\* failure reaches the caller if there was none, and the cache stays as it
\* was.  An entry younger than the time-to-live is returned without
\* invoking the fetcher, and only such an entry is.
FailureJudgedBySnapshot ==
    /\ settled.ended =>
           /\ settled.fetcher = "rejected" =>
                  /\ cache = settled.cacheBefore
                  /\ IF settled.cachedAtStart.stored
                     THEN /\ settled.outcome = "returned"
                          /\ settled.data = settled.cachedAtStart.data
                     ELSE settled.outcome = "threw"
           /\ settled.outcome = "threw" => settled.fetcher = "rejected"
           /\ settled.fetcher = "not invoked" =>
                  /\ settled.cachedAtStart.stored
                  /\ settled.at - settled.cachedAtStart.timestamp < cacheTTL
                  /\ settled.outcome = "returned"
                  /\ settled.data = settled.cachedAtStart.data
                  /\ cache = settled.cacheBefore
    /\ \A c \in CallIds :
           (pending[c].active /\ pending[c].cached.stored) =>
               now - pending[c].cached.timestamp >= cacheTTL


\* C22: whenever the refresh task commits a record, exactly one
\* 'sentiment_update' message carrying that full record is sent to every
\* subscriber open at that moment, in commit order, and a new subscriber is
\* first sent the latest committed record: what a socket has been sent is
\* exactly the history from the record that was latest when it connected to
\* the last one committed while it was open, one message each.
C22_SubscribersFollowCommits ==
    \A c \in ClientIds :
        IF clients[c] = NoSocket
        THEN inbox[c] = <<>>
        ELSE LET first == clients[c].connectedAt
                 last == IF clients[c].state = "open"
                         THEN Len(sentimentData)
                         ELSE clients[c].closedAt
             IN  inbox[c] = [i \in 1..(last - first + 1) |->
                                Message(sentimentData[first + i - 1])]

\* C22 happens: one socket has been sent two commits after its first
\* message, another connected later and closed before the last commit.
C22_Witness ==
    \E c, d \in ClientIds :
        /\ clients[c].state = "open"
        /\ Len(inbox[c]) = 3
        /\ clients[d].state = "closed"
        /\ clients[d].connectedAt > clients[c].connectedAt
        /\ clients[d].closedAt < Len(sentimentData)
        /\ Len(inbox[d]) = 1

\* C21: the refresh cycle is never blocked by an upstream source: every
\* tick eventually stores a new record and broadcasts it, whether each
\* source succeeds, fails or never responds.
C21_EveryTickStores ==
    \A t \in TickIds : <>(refresh.ticks[t].state = "stored")

\* What does hold: a simulated tick stores, and so does a tick all of whose
\* sources have settled, fulfilled or rejected.
SettledTicksStore ==
    \A t \in TickIds :
        /\ ~refresh.useReal ~> refresh.ticks[t].state = "stored"
        /\ (refresh.ticks[t].state = "awaiting"
                /\ refresh.ticks[t].unsettled = {})
               ~> refresh.ticks[t].state = "stored"

====
